---- MODULE Spec2Model ----
(***************************************************************************)
(* Conway's Game of Life simulator of the quickstart notebook              *)
(* notebooks/quickstart/game_of_life_simulator.ipynb: the convolution      *)
(* step single_step, the classes GameOfLifeSimple and GameOfLife, and the  *)
(* caller that keeps the elements the simulator hands out.                 *)
(*                                                                         *)
(* A grid (a 2-D numpy array) is a sequence of rows, each a sequence of    *)
(* integers; indices are 1-based here and 0-based in the notebook.         *)
(* numpy arrays and hv.Image elements are objects with identity: `arrays`  *)
(* maps an array id to its contents, `images` maps an Image id to the id   *)
(* of the array its .data attribute is bound to.                           *)
(***************************************************************************)
EXTENDS Integers, Sequences, FiniteSets, TLC

VARIABLES
    sims,     \* simulator id -> [kind, time, board, history]: the instance's attributes
    made,     \* simulator id -> [pattern, padding]: the arguments of its constructor
    arrays,   \* array id -> grid: the numpy arrays alive
    images,   \* image id -> array id: the hv.Image elements alive and their .data
    held,     \* the elements the caller keeps: those of the last two calls, older first
    last      \* the call that was made last: [op, sim, arg]

vars == <<sims, made, arrays, images, held, last>>

(***************************************************************************)
(* Bounds of the model.                                                    *)
(***************************************************************************)
MaxTime == 3        \* largest time the simulator of Spec is run to
MaxPairTime == 2    \* largest time the simulators of SpecPair are run to
MaxDeadTime == 2    \* largest time the simulator of SpecDead is run to
MaxDim == 4         \* largest number of rows and of columns of a grid SpecStep draws
MaxCells == 12      \* largest number of cells of a grid SpecStep draws
MaxSteps == 1       \* number of steps SpecStep takes from each grid
MaxAdvance == 1     \* largest number of steps one run_until of SpecGlider takes
GliderHorizon == 56 \* largest time the default simulator of SpecGlider is run to

(***************************************************************************)
(* Grids.                                                                  *)
(***************************************************************************)
Rows(X) == Len(X)
Cols(X) == Len(X[1])
shape(X) == <<Rows(X), Cols(X)>>

\* Index i of an axis of length n under boundary='wrap' (circular), 1-based.
Wrap(i, n) == ((i - 1 + n) % n) + 1

\* A comparison gives a numpy bool, which counts as 1 or 0 in arithmetic.
Bool(b) == IF b THEN 1 ELSE 0

\* x & b and x | b for an integer x in {0, 1} and a bool b (as 1 / 0).
BitAnd(x, b) == IF b = 1 THEN x % 2 ELSE 0
BitOr(b, x) == IF b = 1 \/ x = 1 THEN 1 ELSE 0

\* F(v), with v evaluated once however often F uses its argument.
Bind(v, F(_)) == CHOOSE y \in {F(x) : x \in {v}} : TRUE

\* The sequence <<f[1], ..., f[n]>>, built element by element.
RECURSIVE Tuple(_, _)
Tuple(f, n) == IF n = 0 THEN <<>> ELSE Append(Tuple(f, n - 1), f[n])

\* The sequence <<F(1), ..., F(n)>>.
MkSeq(n, F(_)) == Tuple([k \in 1..n |-> F(k)], n)

\* The grid of r rows and c columns whose cell (i, j) is F(i, j).
Grid(r, c, F(_, _)) == MkSeq(r, LAMBDA i : MkSeq(c, LAMBDA j : F(i, j)))

\* The function f restricted to the set S.
RECURSIVE Restrict(_, _)
Restrict(f, S) ==
    IF S = {} THEN <<>>
    ELSE LET x == CHOOSE y \in S : TRUE
         IN  (x :> f[x]) @@ Restrict(f, S \ {x})

\* np.ones((r, c))
ones(r, c) == Grid(r, c, LAMBDA i, j : 1)

\* Mutant: one row and one column more of zeros on every side.
pad_wide(X, p) ==
    Grid(Rows(X) + 2 * p + 2, Cols(X) + 2 * p + 2, LAMBDA i, j :
        IF i \in (p + 2)..(p + 1 + Rows(X)) /\ j \in (p + 2)..(p + 1 + Cols(X))
        THEN X[i - p - 1][j - p - 1]
        ELSE 0)

\* np.pad(X, p, 'constant'): p rows and columns of zeros on every side.
pad(X, p) ==
    Grid(Rows(X) + 2 * p, Cols(X) + 2 * p, LAMBDA i, j :
        IF i \in (p + 1)..(p + Rows(X)) /\ j \in (p + 1)..(p + Cols(X))
        THEN X[i - p][j - p]
        ELSE 0)

\* Mutant: the glider with its rows in reverse order.
glider_flipped == <<<<1, 1, 0>>, <<0, 1, 1>>, <<1, 0, 0>>>>

\* glider = [[1, 0, 0], [0, 1, 1], [1, 1, 0]]
glider == <<<<1, 0, 0>>, <<0, 1, 1>>, <<1, 1, 0>>>>

\* The kernel of single_step: np.ones((3, 3)).
KernelSize == 3
Kernel == ones(KernelSize, KernelSize)

(***************************************************************************)
(* scipy.signal.convolve2d(X, K, mode='same', boundary='wrap').  The full  *)
(* convolution is full[m][n] = SUM K[a][b] * X[m - a][n - b]; mode='same'  *)
(* keeps the Rows(X) x Cols(X) centre of it, which starts (Rows(K) - 1)    *)
(* \div 2 rows and (Cols(K) - 1) \div 2 columns in; X is indexed           *)
(* circularly.                                                             *)
(***************************************************************************)
\* The sum over the kernel cells 1..k (row-major) of K[a][b] * X[i - a][j - b],
\* the indices of X taken from the centre of the kernel and circularly.
RECURSIVE ConvAt(_, _, _, _, _)
ConvAt(X, K, i, j, k) ==
    IF k = 0 THEN 0
    ELSE LET a == ((k - 1) \div Cols(K)) + 1
             b == ((k - 1) % Cols(K)) + 1
         IN  K[a][b] * X[Wrap(i + ((Rows(K) - 1) \div 2) - a + 1, Rows(X))]
                        [Wrap(j + ((Cols(K) - 1) \div 2) - b + 1, Cols(X))]
             + ConvAt(X, K, i, j, k - 1)

\* Mutant: boundary='fill' with fillvalue=1, a cell outside the grid counting
\* as 1 where boundary='wrap' takes the cell of the opposite edge.
RECURSIVE ConvAtFill(_, _, _, _, _)
ConvAtFill(X, K, i, j, k) ==
    IF k = 0 THEN 0
    ELSE LET a == ((k - 1) \div Cols(K)) + 1
             b == ((k - 1) % Cols(K)) + 1
             m == i + ((Rows(K) - 1) \div 2) - a + 1
             n == j + ((Cols(K) - 1) \div 2) - b + 1
         IN  K[a][b] * (IF m \in 1..Rows(X) /\ n \in 1..Cols(X) THEN X[m][n] ELSE 1)
             + ConvAtFill(X, K, i, j, k - 1)

convolve2d_fill(X, K) ==
    Grid(Rows(X), Cols(X), LAMBDA i, j : ConvAtFill(X, K, i, j, Rows(K) * Cols(K)))

\* Mutant: the Rows(X) x Cols(X) part of the full convolution taken from its
\* first row and column, not from its centre.
convolve2d_corner(X, K) ==
    Grid(Rows(X), Cols(X), LAMBDA i, j :
        ConvAt(X, K, i - ((Rows(K) - 1) \div 2) + Rows(X),
                     j - ((Cols(K) - 1) \div 2) + Cols(X), Rows(K) * Cols(K)))

convolve2d(X, K) ==
    Grid(Rows(X), Cols(X), LAMBDA i, j : ConvAt(X, K, i, j, Rows(K) * Cols(K)))

\* Mutant: the count keeps the cell itself (the "- X" forgotten).
nbrs_count_self(X) == convolve2d(X, Kernel)

\* nbrs_count = convolve2d(X, np.ones((3, 3)), mode='same', boundary='wrap') - X
nbrs_count(X) ==
    Bind(convolve2d(X, Kernel), LAMBDA conv :
        Grid(Rows(conv), Cols(conv), LAMBDA i, j : conv[i][j] - X[i][j]))

\* Mutant: the result cut down to the cells whose neighbours are all inside
\* the grid, as mode='valid' would.
single_step_valid(X) ==
    Bind(nbrs_count(X), LAMBDA n :
        Grid(Rows(n) - 2, Cols(n) - 2, LAMBDA i, j :
            BitOr(Bool(n[i + 1][j + 1] = 3),
                  BitAnd(X[i + 1][j + 1], Bool(n[i + 1][j + 1] = 2)))))

\* return (nbrs_count == 3) | (X & (nbrs_count == 2))
single_step(X) ==
    Bind(nbrs_count(X), LAMBDA n :
        Grid(Rows(n), Cols(n), LAMBDA i, j :
            BitOr(Bool(n[i][j] = 3), BitAnd(X[i][j], Bool(n[i][j] = 2)))))

(***************************************************************************)
(* Objects.  A world w is the heap an operation works on:                  *)
(*   w.sims, w.arrays, w.images  as the variables of the same names,       *)
(*   w.pins   the Image ids the caller holds while the operation runs.     *)
(* Between two calls the objects are numbered in the order in which the    *)
(* simulators and the caller refer to them (Canonical): an id is an        *)
(* address, and which address an object has decides nothing.               *)
(* A GameOfLifeSimple instance has no history attribute: its record has no *)
(* history field.                                                          *)
(***************************************************************************)

\* The id of a newly allocated object: the least id not in use.
NewId(f) ==
    CHOOSE i \in 1..(Cardinality(DOMAIN f) + 1) :
        i \notin DOMAIN f /\ \A j \in 1..(i - 1) : j \in DOMAIN f

\* A new numpy array holding grid X: [w, id].
NewArray(w, X) ==
    LET a == NewId(w.arrays)
    IN  [w |-> [w EXCEPT !.arrays = (a :> X) @@ w.arrays], id |-> a]

\* hv.Image(data): a new element whose .data is the array passed in.
Image(w, a) ==
    LET i == NewId(w.images)
    IN  [w |-> [w EXCEPT !.images = (i :> a) @@ w.images], id |-> i]

\* The Image ids the simulators' attributes refer to.
SimImages(ss) ==
    {ss[s].board : s \in DOMAIN ss} \cup
    {ss[s].history : s \in {x \in DOMAIN ss : "history" \in DOMAIN ss[x]}}

\* Reference counting: an object nothing refers to any longer is freed.
\* `keep` are the Image ids the running call and its caller refer to.
Collect(w, keep) ==
    LET liveI == (SimImages(w.sims) \cup keep) \cap DOMAIN w.images
        liveA == {w.images[i] : i \in liveI}
    IN  [w EXCEPT !.images = Restrict(w.images, liveI),
                  !.arrays = Restrict(w.arrays, liveA)]

\* The contents of Image i in world w: i.data.
Data(w, i) == w.arrays[w.images[i]]

(***************************************************************************)
(* class GameOfLifeSimple / class GameOfLife(GameOfLifeSimple)             *)
(***************************************************************************)
\* GameOfLifeSimple.__init__(self, pattern, padding)
GameOfLifeSimple_init(w, s, kind, pattern, padding) ==
    Bind(NewArray(w, pad(pattern, padding)), LAMBDA arr :
    Bind(Image(arr.w, arr.id), LAMBDA img :
        [img.w EXCEPT !.sims = (s :> [kind |-> kind, time |-> 0, board |-> img.id])
                               @@ img.w.sims]))

\* GameOfLife.__init__(self, **kwargs)
GameOfLife_init(w, s, kind, pattern, padding) ==
    Bind(GameOfLifeSimple_init(w, s, kind, pattern, padding), LAMBDA w1 :
    Bind(shape(Data(w1, w1.sims[s].board)), LAMBDA sh :
    Bind(ones(sh[1], sh[2]), LAMBDA one :
    Bind(NewArray(w1, Grid(sh[1], sh[2], LAMBDA i, j :
                          one[i][j] * w1.sims[s].time)), LAMBDA arr :
    Bind(Image(arr.w, arr.id), LAMBDA img :
        [img.w EXCEPT !.sims[s] = [history |-> img.id] @@ w1.sims[s]])))))

\* Mutant: the history counting the times a cell was alive (history + state).
where_count(S, t, H) ==
    Grid(Rows(S), Cols(S), LAMBDA i, j : H[i][j] + S[i][j])

\* Mutant: a cell that is not alive gets 0, whatever the history held.
where_reset(S, t, H) ==
    Grid(Rows(S), Cols(S), LAMBDA i, j :
        IF S[i][j] = 1 THEN S[i][j] * t ELSE 0)

\* np.where(state.data == 1, state.data * time, history): a new array.
where(S, t, H) ==
    Grid(Rows(S), Cols(S), LAMBDA i, j :
        IF S[i][j] = 1 THEN S[i][j] * t ELSE H[i][j])

\* Mutant: the time counter left as it is (self.time += 1 missing).
GameOfLifeSimple_step_timeless(w, s) ==
    Bind(NewArray(w, single_step(Data(w, w.sims[s].board))), LAMBDA data :
    Bind([data.w EXCEPT !.images[w.sims[s].board] = data.id], LAMBDA w1 :
        Image(w1, data.id)))

\* Mutant: the next board written into the array of the board itself.
GameOfLifeSimple_step_inplace(w, s) ==
    Bind([w EXCEPT !.arrays[w.images[w.sims[s].board]] = single_step(@),
                   !.sims[s].time = @ + 1], LAMBDA w1 :
        Image(w1, w1.images[w1.sims[s].board]))

\* GameOfLifeSimple.step(self): [w, id], id the Image returned.
GameOfLifeSimple_step(w, s) ==
    Bind(NewArray(w, single_step(Data(w, w.sims[s].board))), LAMBDA data :
    Bind([data.w EXCEPT !.images[w.sims[s].board] = data.id,
                        !.sims[s].time = @ + 1], LAMBDA w1 :
        Image(w1, data.id)))

\* Mutant: the new history written into the array of the history itself
\* (self._history.data[:] = np.where(...)).
GameOfLife_step_inplace(w, s) ==
    Bind(GameOfLifeSimple_step(w, s), LAMBDA state :
        [w |-> [state.w EXCEPT
                    !.arrays[state.w.images[state.w.sims[s].history]] =
                        where(Data(state.w, state.id), state.w.sims[s].time, @)],
         id |-> state.id])

\* Mutant: the grid of times bound to the board, not to the history.
GameOfLife_step_board(w, s) ==
    Bind(GameOfLifeSimple_step(w, s), LAMBDA state :
    Bind(NewArray(state.w, where(Data(state.w, state.id), state.w.sims[s].time,
                                 Data(state.w, state.w.sims[s].history))), LAMBDA hist :
        [w |-> [hist.w EXCEPT !.images[state.w.sims[s].board] = hist.id],
         id |-> state.id]))

\* GameOfLife.step(self)
GameOfLife_step(w, s) ==
    Bind(GameOfLifeSimple_step(w, s), LAMBDA state :
    Bind(NewArray(state.w, where(Data(state.w, state.id), state.w.sims[s].time,
                                 Data(state.w, state.w.sims[s].history))), LAMBDA hist :
        [w |-> [hist.w EXCEPT !.images[state.w.sims[s].history] = hist.id],
         id |-> state.id]))

\* self.step(): the method of the instance's class; when it returns, the
\* arrays and Images it left without a reference are gone.
step(w, s) ==
    Bind(IF w.sims[s].kind = "GameOfLife"
         THEN GameOfLife_step(w, s)
         ELSE GameOfLifeSimple_step(w, s), LAMBDA r :
        [w |-> Collect(r.w, w.pins \cup {r.id}), id |-> r.id])

\* Mutant: the loop body run once however long the range is (an `if` where
\* the `for` is).
run_loop_once(w, s, n, state) ==
    IF n = 0 THEN [w |-> w, id |-> state] ELSE step(w, s)

\* The loop of run_until: for t in range(self.time, time): state = self.step()
\* (n steps left; state is the Image the last step returned, 0 while unbound).
RECURSIVE run_loop(_, _, _, _)
run_loop(w, s, n, state) ==
    IF n = 0 THEN [w |-> w, id |-> state]
    ELSE Bind(step(w, s), LAMBDA r : run_loop(r.w, s, n - 1, r.id))

\* Mutant: the sign of the end dropped, range(a, abs(b)).
RangeLen_abs(a, b) ==
    IF (IF b < 0 THEN 0 - b ELSE b) > a THEN (IF b < 0 THEN 0 - b ELSE b) - a ELSE 0

\* Mutant: the range taken to include its end, range(a, b + 1).
RangeLen_inclusive(a, b) == IF b >= a THEN b - a + 1 ELSE 0

\* len(range(a, b))
RangeLen(a, b) == IF b > a THEN b - a ELSE 0

\* GameOfLifeSimple.run_until(self, time)
run_until(w, s, time) ==
    Bind(RangeLen(w.sims[s].time, time), LAMBDA times :
        IF times # 0 THEN run_loop(w, s, times, 0)
        ELSE Image(w, w.images[w.sims[s].board]))

\* Mutant: the Image of the history made before the simulation is advanced.
history_until_stale(w, s, time) ==
    Bind(Image(w, w.images[w.sims[s].history]), LAMBDA h :
    Bind(run_until([h.w EXCEPT !.pins = @ \cup {h.id}], s, time), LAMBDA r :
        [w |-> Collect(r.w, w.pins \cup {h.id}), id |-> h.id]))

\* GameOfLife.history_until(self, time)
history_until(w, s, time) ==
    Bind(run_until(w, s, time), LAMBDA r :
    Bind(Collect(r.w, w.pins), LAMBDA w1 :
        Image(w1, w1.images[w1.sims[s].history])))

\* np.linspace(start, stop, num) over the common denominator den: the
\* numerators of the num evenly spaced values from start/den to stop/den.
linspace(start, stop, num, den) ==
    MkSeq(num, LAMBDA k :
        [num |-> IF num = 1 THEN start
                 ELSE start + ((k - 1) * (stop - start)) \div (num - 1),
         den |-> den])

\* X.flatten(): the cells in row-major order.
flatten(X) ==
    MkSeq(Rows(X) * Cols(X), LAMBDA n :
        X[((n - 1) \div Cols(X)) + 1][((n - 1) % Cols(X)) + 1])

\* np.meshgrid(u, v): x[i][j] = u[j] and y[i][j] = v[i], Len(v) rows, Len(u) columns.
meshgrid(u, v) ==
    [x |-> Grid(Len(v), Len(u), LAMBDA i, j : u[j]),
     y |-> Grid(Len(v), Len(u), LAMBDA i, j : v[i])]

Min(a, b) == IF a < b THEN a ELSE b

\* zip(a, b, c): as long as the shortest of the three.
zip(a, b, c) ==
    MkSeq(Min(Len(a), Min(Len(b), Len(c))), LAMBDA n : <<a[n], b[n], c[n]>>)

Neg(q) == [num |-> 0 - q.num, den |-> q.den]

\* GameOfLife.points_until(self, time): [w, pts], pts the list handed to hv.Points.
\* delta = 1.0 / shape[0], and -0.5 + delta/2 = (1 - shape[0]) / (2 * shape[0]).
points_until(w, s, time) ==
    Bind(run_until(w, s, time), LAMBDA board :
    Bind(Data(board.w, board.id), LAMBDA data :
    Bind(linspace(1 - shape(data)[1], shape(data)[1] - 1,
                  shape(data)[1], 2 * shape(data)[1]), LAMBDA lin :
    Bind(meshgrid(lin, lin), LAMBDA xy :
    Bind(SelectSeq(zip(flatten(xy.x), flatten(xy.y), flatten(data)),
                   LAMBDA t : t[3] # 0), LAMBDA live :
        [w |-> Collect(board.w, w.pins),
         pts |-> MkSeq(Len(live), LAMBDA k : <<live[k][1], Neg(live[k][2])>>)])))))

(***************************************************************************)
(* The caller: the notebook cells that construct simulators, call their    *)
(* methods and keep what they return.                                      *)
(***************************************************************************)
ImageOf(i) == [element |-> "Image", id |-> i]
PointsOf(pts) == [element |-> "Points", data |-> pts]

\* The Image ids among the elements h.
HeldImages(h) == {h[k].id : k \in {x \in 1..Len(h) : h[x].element = "Image"}}

\* The caller lays the new element e out beside the one before it, as in
\* GoL.run_until(10) + GoL.history_until(10), and lets go of any older one.
Keep(h, e) == IF h = <<>> THEN <<e>> ELSE <<h[Len(h)], e>>

\* The heap as a call finds it.
World == [sims |-> sims, arrays |-> arrays, images |-> images,
          pins |-> HeldImages(held)]

\* The heap before any object exists.
Empty == [sims |-> <<>>, arrays |-> <<>>, images |-> <<>>, pins |-> {}]

\* GameOfLifeSimple(pattern=.., padding=..) or GameOfLife(pattern=.., padding=..)
Construct(w, s, kind, pattern, padding) ==
    IF kind = "GameOfLife"
    THEN GameOfLife_init(w, s, kind, pattern, padding)
    ELSE GameOfLifeSimple_init(w, s, kind, pattern, padding)

\* The Image ids the simulators 1..n refer to, in order: board, then history.
RECURSIVE SimOrder(_, _)
SimOrder(ss, n) ==
    IF n = 0 THEN <<>>
    ELSE SimOrder(ss, n - 1) \o
         (IF "history" \in DOMAIN ss[n] THEN <<ss[n].board, ss[n].history>>
          ELSE <<ss[n].board>>)

\* The Image ids of the elements h[1..n], in order.
RECURSIVE HeldOrder(_, _)
HeldOrder(h, n) ==
    IF n = 0 THEN <<>>
    ELSE HeldOrder(h, n - 1) \o
         (IF h[n].element = "Image" THEN <<h[n].id>> ELSE <<>>)

\* q[1..n] without repetitions, each value at its first place.
RECURSIVE Distinct(_, _)
Distinct(q, n) ==
    IF n = 0 THEN <<>>
    ELSE Bind(Distinct(q, n - 1), LAMBDA d :
            IF \E k \in 1..Len(d) : d[k] = q[n] THEN d ELSE Append(d, q[n]))

Pos(q, x) == CHOOSE k \in 1..Len(q) : q[k] = x

\* World w and the caller's elements h with every object renumbered by the
\* order in which it is referred to: [sims, arrays, images, held].
Canonical(w, h) ==
    Bind(SimOrder(w.sims, Len(w.sims)) \o HeldOrder(h, Len(h)), LAMBDA refs :
    Bind(Distinct(refs, Len(refs)), LAMBDA iq :
    Bind(MkSeq(Len(iq), LAMBDA k : w.images[iq[k]]), LAMBDA datas :
    Bind(Distinct(datas, Len(datas)), LAMBDA aq :
        [sims |-> MkSeq(Len(w.sims), LAMBDA n :
                    IF "history" \in DOMAIN w.sims[n]
                    THEN [w.sims[n] EXCEPT !.board = Pos(iq, @), !.history = Pos(iq, @)]
                    ELSE [w.sims[n] EXCEPT !.board = Pos(iq, @)]),
         images |-> MkSeq(Len(iq), LAMBDA k : Pos(aq, datas[k])),
         arrays |-> MkSeq(Len(aq), LAMBDA k : w.arrays[aq[k]]),
         held |-> MkSeq(Len(h), LAMBDA k :
                    IF h[k].element = "Image" THEN ImageOf(Pos(iq, h[k].id))
                    ELSE h[k])]))))

\* A call returned world w and element e: the caller keeps e, and what is
\* referred to no longer is freed.
Return(w, e, call) ==
    \E h \in {Keep(held, e)} :
        \E c \in {Canonical(Collect(w, HeldImages(h)), h)} :
            /\ sims' = c.sims
            /\ arrays' = c.arrays
            /\ images' = c.images
            /\ held' = c.held
            /\ last' = call
            /\ UNCHANGED made

\* sim.step(), while the time is below limit
Step(s, limit) ==
    /\ sims[s].time < limit
    /\ \E w \in {World} : \E r \in {step(w, s)} :
           Return(r.w, ImageOf(r.id), [op |-> "step", sim |-> s, arg |-> 0])

\* sim.run_until(t)
RunUntil(s, t) ==
    \E w \in {World} : \E r \in {run_until(w, s, t)} :
        Return(r.w, ImageOf(r.id), [op |-> "run_until", sim |-> s, arg |-> t])

\* sim.history_until(t), a method of GameOfLife only
HistoryUntil(s, t) ==
    /\ sims[s].kind = "GameOfLife"
    /\ \E w \in {World} : \E r \in {history_until(w, s, t)} :
           Return(r.w, ImageOf(r.id), [op |-> "history_until", sim |-> s, arg |-> t])

\* sim.points_until(t), a method of GameOfLife only
PointsUntil(s, t) ==
    /\ sims[s].kind = "GameOfLife"
    /\ \E w \in {World} : \E r \in {points_until(w, s, t)} :
           Return(r.w, PointsOf(r.pts), [op |-> "points_until", sim |-> s, arg |-> t])

\* The state after the constructors in cs (simulator id -> [kind, pattern, padding]) ran.
RECURSIVE ConstructAll(_, _)
ConstructAll(cs, n) ==
    IF n = 0 THEN Empty
    ELSE Construct(ConstructAll(cs, n - 1), n, cs[n].kind, cs[n].pattern, cs[n].padding)

InitWith(cs) ==
    \E w \in {ConstructAll(cs, Len(cs))} :
        /\ sims = w.sims
        /\ made = [s \in DOMAIN cs |-> [pattern |-> cs[s].pattern, padding |-> cs[s].padding]]
        /\ arrays = w.arrays
        /\ images = w.images
        /\ held = <<>>
        /\ last = [op |-> "init", sim |-> 0, arg |-> 0]

Kinds == {"GameOfLifeSimple", "GameOfLife"}

\* The starting patterns of Spec and their paddings: the glider, an oscillator
\* on a board that is not square, and a pattern on a board with no padding.
Patterns ==
    { [pattern |-> glider, padding |-> 1],
      [pattern |-> <<<<1, 1, 1>>>>, padding |-> 1],
      [pattern |-> <<<<0, 1, 1>>, <<1, 1, 0>>, <<0, 1, 0>>, <<0, 0, 0>>>>, padding |-> 0] }

(***************************************************************************)
(* Spec: one simulator of either class, any starting pattern of Patterns,  *)
(* any interleaving of its methods with any time argument up to MaxTime    *)
(* (and the negative time -1).                                             *)
(***************************************************************************)
Times == (0 - 1)..MaxTime

Init ==
    \E kind \in Kinds, p \in Patterns :
        InitWith(<<[kind |-> kind, pattern |-> p.pattern, padding |-> p.padding]>>)

DoStep == \E s \in DOMAIN sims : Step(s, MaxTime)
DoRunUntil == \E s \in DOMAIN sims, t \in Times : RunUntil(s, t)
DoHistoryUntil == \E s \in DOMAIN sims, t \in Times : HistoryUntil(s, t)
DoPointsUntil == \E s \in DOMAIN sims, t \in Times : PointsUntil(s, t)

Next == DoStep \/ DoRunUntil \/ DoHistoryUntil \/ DoPointsUntil

Spec == Init /\ [][Next]_vars

(***************************************************************************)
(* SpecStep: single_step applied to every 0/1 grid of at most MaxCells     *)
(* cells, as the board of a GameOfLifeSimple without padding.              *)
(***************************************************************************)
\* The 0/1 grids of r rows and c columns.
Grids(r, c) == {Grid(r, c, LAMBDA i, j : g[i][j]) : g \in [1..r -> [1..c -> {0, 1}]]}

Shapes == {sh \in (1..MaxDim) \X (1..MaxDim) : sh[1] * sh[2] <= MaxCells}

InitStep ==
    \E sh \in Shapes :
        \E X \in Grids(sh[1], sh[2]) :
            InitWith(<<[kind |-> "GameOfLifeSimple", pattern |-> X, padding |-> 0]>>)

StepOnce == \E s \in DOMAIN sims : Step(s, MaxSteps)

NextStep == StepOnce

SpecStep == InitStep /\ [][NextStep]_vars

(***************************************************************************)
(* SpecGlider: the default simulator, GameOfLifeSimple(), advanced as the  *)
(* notebook does: sim1.event(time=t) for t in range(1, 53) calls           *)
(* run_until(t) with the next time (or the same time again), and step().   *)
(***************************************************************************)
DefaultPadding == 5

InitGlider ==
    InitWith(<<[kind |-> "GameOfLifeSimple", pattern |-> glider,
                padding |-> DefaultPadding]>>)

GliderStep == \E s \in DOMAIN sims : Step(s, GliderHorizon)

GliderEvent ==
    \E s \in DOMAIN sims, d \in 0..MaxAdvance :
        /\ sims[s].time + d <= GliderHorizon
        /\ RunUntil(s, sims[s].time + d)

NextGlider == GliderStep \/ GliderEvent

SpecGlider == InitGlider /\ [][NextGlider]_vars

(***************************************************************************)
(* SpecPair: two simulators side by side, the first of either class and    *)
(* the second a GameOfLife, started from the two phases of the blinker on  *)
(* boards of one shape, so that the same board is reached at different     *)
(* times and along different calls.                                        *)
(***************************************************************************)
BlinkerUp == <<<<0, 1, 0>>, <<0, 1, 0>>, <<0, 1, 0>>>>
BlinkerAcross == <<<<0, 0, 0>>, <<1, 1, 1>>, <<0, 0, 0>>>>

PairTimes == 0..MaxPairTime

InitPair ==
    \E kind \in Kinds :
        InitWith(<<[kind |-> kind, pattern |-> BlinkerUp, padding |-> 1],
                   [kind |-> "GameOfLife", pattern |-> BlinkerAcross, padding |-> 1]>>)

PairStep == \E s \in DOMAIN sims : Step(s, MaxPairTime)
PairRunUntil == \E s \in DOMAIN sims, t \in PairTimes : RunUntil(s, t)
PairHistoryUntil == \E s \in DOMAIN sims, t \in PairTimes : HistoryUntil(s, t)

NextPair == PairStep \/ PairRunUntil \/ PairHistoryUntil

SpecPair == InitPair /\ [][NextPair]_vars

(***************************************************************************)
(* Properties.                                                             *)
(***************************************************************************)
\* The board of simulator s: self.board.data.
Board(s) == arrays[images[sims[s].board]]

\* The history grid of a GameOfLife s: self._history.data.
History(s) == arrays[images[sims[s].history]]

\* The grid of the k-th element the caller holds.
HeldData(k) == arrays[images[held[k].id]]

\* The cells of grid X.
Cells(X) == (1..Rows(X)) \X (1..Cols(X))

\* The eight cells adjacent to cell c of X, the board being a torus.
Neighbours(X, c) ==
    {<<Wrap(c[1] + d[1], Rows(X)), Wrap(c[2] + d[2], Cols(X))>> :
        d \in ({0 - 1, 0, 1} \X {0 - 1, 0, 1}) \ {<<0, 0>>}}

LiveNeighbours(X, c) == Cardinality({n \in Neighbours(X, c) : X[n[1]][n[2]] = 1})

\* Conway's rule for cell c of X.
ConwayAlive(X, c) ==
    \/ X[c[1]][c[2]] = 1 /\ LiveNeighbours(X, c) \in {2, 3}
    \/ X[c[1]][c[2]] = 0 /\ LiveNeighbours(X, c) = 3

\* Simulator s takes exactly one step in this transition.
Stepped(s) == sims'[s].time = sims[s].time + 1

\* C1: for a 0/1 board X of at least 3 rows and 3 columns, the board a step
\* leaves has the shape of X and holds 1 exactly in the cells that Conway's
\* rule, with the eight neighbours taken on the torus, makes alive, and 0 in
\* the others.
C1_ConwayRule ==
    [][\A s \in DOMAIN sims :
          (Stepped(s) /\ Rows(Board(s)) >= 3 /\ Cols(Board(s)) >= 3) =>
              /\ shape(Board(s)') = shape(Board(s))
              /\ \A c \in Cells(Board(s)) :
                    Board(s)'[c[1]][c[2]] = Bool(ConwayAlive(Board(s), c))]_vars

\* C1 witness: a step was taken from a grid of 3 x 4 cells or more in which a
\* cell survived, a cell died of over-population, and a dead cell of the
\* first row was born with a live neighbour in the last row among its three.
C1_Witness ==
    LET X == made[1].pattern
        Y == Board(1)
    IN  /\ sims[1].time = 1 /\ last.op = "step"
        /\ Rows(X) >= 3 /\ Cols(X) >= 4
        /\ \E c \in Cells(X) : X[c[1]][c[2]] = 1 /\ Y[c[1]][c[2]] = 1
        /\ \E c \in Cells(X) :
              X[c[1]][c[2]] = 1 /\ Y[c[1]][c[2]] = 0 /\ LiveNeighbours(X, c) > 3
        /\ \E j \in 1..Cols(X) :
              /\ X[1][j] = 0 /\ Y[1][j] = 1
              /\ \E n \in Neighbours(X, <<1, j>>) : n[1] = Rows(X) /\ X[n[1]][n[2]] = 1

\* The board simulator s was constructed with.
Initial(s) == pad(made[s].pattern, made[s].padding)

\* single_step applied n times to X.
RECURSIVE Iterate(_, _)
Iterate(X, n) ==
    IF n = 0 THEN X ELSE Bind(Iterate(X, n - 1), LAMBDA Y : single_step(Y))

\* Generation t of simulator s.
Gen(s, t) == Iterate(Initial(s), t)

\* The grid of the element the last call returned.
Returned == HeldData(Len(held))

\* C2 as stated: whenever run_until(t) has returned for a t >= 0, the time
\* counter is t and the grid returned is generation t.
C2_Original ==
    (last.op = "run_until" /\ last.arg >= 0) =>
        /\ sims[last.sim].time = last.arg
        /\ Returned = Gen(last.sim, last.arg)

\* C2 amended: run_until(t) called with t at or above the time counter leaves
\* the counter at t and returns generation t; called with t below the counter
\* it leaves the counter alone and returns the current board, the generation
\* of the counter.
C2_RunUntilForward ==
    [][\A s \in DOMAIN sims :
          (last'.op = "run_until" /\ last'.sim = s) =>
              /\ last'.arg >= sims[s].time =>
                    /\ sims'[s].time = last'.arg
                    /\ Returned' = Gen(s, last'.arg)
              /\ last'.arg < sims[s].time =>
                    /\ sims'[s].time = sims[s].time
                    /\ Returned' = Board(s)
                    /\ Returned' = Gen(s, sims[s].time)]_vars

\* C2 witness: run_until(t) has just returned for a t >= 2 reached partly by
\* step and partly by run_until, and generation t is not the initial board.
C2_Witness ==
    /\ last.op = "run_until" /\ last.arg >= 2
    /\ sims[last.sim].time = last.arg
    /\ Len(held) = 2 /\ held[1].element = "Image"
    /\ HeldData(1) = Gen(last.sim, last.arg - 1)
    /\ Returned = Gen(last.sim, last.arg)
    /\ Returned # Initial(last.sim)

\* Simulator s has a history grid (it is a GameOfLife).
HasHistory(s) == "history" \in DOMAIN sims[s]

\* Everything of simulator s but its time counter and the contents of its
\* board and history is the same after the transition.
SameButBoardTimeHistory(s) ==
    /\ made'[s] = made[s]
    /\ sims'[s].kind = sims[s].kind
    /\ DOMAIN sims'[s] = DOMAIN sims[s]
    /\ HasHistory(s) => shape(History(s)') = shape(History(s))

\* Simulator s is the same after the transition.
Untouched(s) ==
    /\ SameButBoardTimeHistory(s)
    /\ sims'[s].time = sims[s].time
    /\ Board(s)' = Board(s)
    /\ HasHistory(s) => History(s)' = History(s)

\* C3: a call that steps simulator s leaves the grid it read as it was and
\* puts the result in a separate grid: the Image the caller got from the call
\* before, which shared the board's array, still holds the old board and
\* shares no array with the new board.  Beyond the board, the time counter
\* and the history grid of s the call changes nothing: not the constructor
\* arguments, the class or the attributes of s, not the other simulator, not
\* the contents of an Image the caller holds.
C3_StepFrame ==
    [][\A s \in DOMAIN sims :
          sims'[s].time > sims[s].time =>
              /\ SameButBoardTimeHistory(s)
              /\ \A o \in DOMAIN sims \ {s} : Untouched(o)
              /\ DOMAIN sims' = DOMAIN sims /\ DOMAIN made' = DOMAIN made
              /\ (held # <<>> /\ held[Len(held)].element = "Image") =>
                    /\ held'[1].element = "Image"
                    /\ HeldData(1)' = HeldData(Len(held))
                    /\ images[held[Len(held)].id] = images[sims[s].board] =>
                          /\ HeldData(1)' = Board(s)
                          /\ images'[held'[1].id] # images'[sims'[s].board]]_vars

\* C3 witness: step has just returned on the second simulator; the caller
\* holds the Image of the step before, which holds the board of before and
\* differs from the board of now, and the first simulator has been stepped too.
C3_Witness ==
    /\ last.op = "step" /\ last.sim = 2
    /\ sims[2].time = 2 /\ sims[1].time = 1
    /\ Len(held) = 2 /\ held[1].element = "Image"
    /\ HeldData(1) = Gen(2, 1)
    /\ HeldData(1) # Board(2)
    /\ Returned = Board(2)
    /\ images[held[1].id] # images[sims[2].board]
    /\ History(2) # Initial(2)

\* The shape of the board simulator s was constructed with: np.pad adds
\* padding rows and columns on every side of the pattern.
ConstructedShape(s) ==
    <<Rows(made[s].pattern) + 2 * made[s].padding,
      Cols(made[s].pattern) + 2 * made[s].padding>>

\* C4: in every reachable state the board, and the history grid of a
\* GameOfLife, has the rows and columns of the board made at construction,
\* and single_step of the board has the shape of the board.
C4_ShapeKept ==
    \A s \in DOMAIN sims :
        /\ shape(Board(s)) = ConstructedShape(s)
        /\ \A i \in 1..Rows(Board(s)) : Len(Board(s)[i]) = Cols(Board(s))
        /\ HasHistory(s) =>
              /\ shape(History(s)) = ConstructedShape(s)
              /\ \A i \in 1..Rows(History(s)) : Len(History(s)[i]) = Cols(History(s))
        /\ shape(single_step(Board(s))) = shape(Board(s))

\* C4 witness: a GameOfLife on a board that is not square has been run to
\* time 2 or later through step, run_until, history_until and points_until.
C4_Witness ==
    /\ sims[1].kind = "GameOfLife"
    /\ sims[1].time >= 2
    /\ Rows(Board(1)) # Cols(Board(1))
    /\ last.op = "points_until"
    /\ Len(held) = 2 /\ held[1].element = "Image"
    /\ Board(1) # Initial(1)

\* Grid X translated on the torus by dr rows down and dc columns right:
\* cell (i, j) of X is cell (i + dr, j + dc) of the result, indices circular.
Roll(X, dr, dc) ==
    Grid(Rows(X), Cols(X), LAMBDA i, j :
        X[((i - 1 - dr) % Rows(X)) + 1][((j - 1 - dc) % Cols(X)) + 1])

\* The number of cells of X that hold 1.
Population(X) == Cardinality({c \in Cells(X) : X[c[1]][c[2]] = 1})

\* C5: on the default simulator the board after 4 * k steps is the initial
\* board translated by k cells down and k cells right (on the torus), with
\* its five live cells.
C5_GliderDiagonal ==
    \A s \in DOMAIN sims :
        sims[s].time % 4 = 0 =>
            /\ Board(s) = Roll(Initial(s), sims[s].time \div 4, sims[s].time \div 4)
            /\ Population(Board(s)) = 5

\* C5 witness: the default simulator has taken two blocks of four steps and
\* its 13 x 13 board is the initial board moved by two cells, not the initial
\* board nor the board of one block before.
C5_Witness ==
    /\ sims[1].time = 8 /\ last.op = "step"
    /\ made[1].pattern = <<<<1, 0, 0>>, <<0, 1, 1>>, <<1, 1, 0>>>>
    /\ shape(Board(1)) = <<13, 13>>
    /\ Board(1) = Roll(Initial(1), 2, 2)
    /\ Board(1) # Initial(1)
    /\ Board(1) # Roll(Initial(1), 1, 1)

\* The notebook advances the default simulator with
\* for t in range(1, 53): sim1.event(time=t), the last time being 52.
LoopEnd == 53

\* C6: on the default simulator the board at time 52 is the board of time 0,
\* and the board at no time from 1 to 51 is.
C6_WrapsOnce ==
    \A s \in DOMAIN sims :
        /\ sims[s].time = LoopEnd - 1 => Board(s) = Initial(s)
        /\ sims[s].time \in 1..(LoopEnd - 2) => Board(s) # Initial(s)

\* C6 witness: the default simulator was advanced to time 52 by run_until(52)
\* from time 51, and its board is the initial 13 x 13 board again.
C6_Witness ==
    /\ last.op = "run_until" /\ last.arg = 52
    /\ sims[1].time = 52
    /\ shape(Board(1)) = <<13, 13>>
    /\ Board(1) = Initial(1)
    /\ Len(held) = 2 /\ held[1].element = "Image"
    /\ HeldData(1) # Initial(1)
    /\ single_step(HeldData(1)) = Board(1)

\* The heap after simulator a, then simulator b, took one step each.
SteppedBoth(a, b) == Bind(step(World, a), LAMBDA r : step(r.w, b).w)

\* C7: two simulators whose boards are equal have equal boards after one step
\* each, whatever their classes, time counters and history grids and whatever
\* calls led to the boards.
C7_HistoryIndependent ==
    \A a \in DOMAIN sims, b \in DOMAIN sims :
        (a # b /\ Board(a) = Board(b)) =>
            \E w \in {SteppedBoth(a, b)} :
                /\ Data(w, w.sims[a].board) = Data(w, w.sims[b].board)
                /\ Data(w, w.sims[a].board) = single_step(Board(a))

\* C7 witness: the two simulators have equal boards at different times,
\* reached through different calls, both are GameOfLife with different
\* history grids, and a step changes the board.
C7_Witness ==
    /\ Board(1) = Board(2)
    /\ sims[1].time # sims[2].time
    /\ sims[1].time > 0 /\ sims[2].time > 0
    /\ HasHistory(1) /\ HasHistory(2)
    /\ History(1) # History(2)
    /\ last.op = "history_until"
    /\ single_step(Board(1)) # Board(1)

\* The generations 0..n of grid X, generation t at place t + 1.
RECURSIVE Generations(_, _)
Generations(X, n) ==
    IF n = 0 THEN <<X>>
    ELSE Bind(Generations(X, n - 1), LAMBDA g : Append(g, single_step(g[n])))

\* The generations of simulator s up to its time counter.
Past(s) == Generations(Initial(s), sims[s].time)

\* The times at which cell c was alive in the generations g.
AliveTimes(g, c) == {t \in 0..(Len(g) - 1) : g[t + 1][c[1]][c[2]] = 1}

\* The greatest element of a non-empty set of integers.
Max(S) == CHOOSE x \in S : \A y \in S : y <= x

\* C8: in a GameOfLife the history value of every cell is the most recent
\* time at which the cell was alive, and 0 for a cell that never was.
C8_HistoryLastAlive ==
    \A s \in DOMAIN sims :
        HasHistory(s) =>
            \E g \in {Past(s)} :
                \A c \in Cells(History(s)) :
                    History(s)[c[1]][c[2]] =
                        IF AliveTimes(g, c) = {} THEN 0 ELSE Max(AliveTimes(g, c))

\* C8 witness: a GameOfLife at time 3 whose history holds a cell that was
\* alive last at time 1, a cell alive now, a cell that never was alive, and a
\* cell alive at time 0 only.
C8_Witness ==
    /\ HasHistory(1) /\ sims[1].time = 3
    /\ \E g \in {Past(1)} :
          /\ \E c \in Cells(History(1)) :
                History(1)[c[1]][c[2]] = 1 /\ AliveTimes(g, c) \in {{1}, {0, 1}}
          /\ \E c \in Cells(History(1)) :
                History(1)[c[1]][c[2]] = 3 /\ Board(1)[c[1]][c[2]] = 1
          /\ \E c \in Cells(History(1)) :
                History(1)[c[1]][c[2]] = 0 /\ AliveTimes(g, c) = {}
          /\ \E c \in Cells(History(1)) :
                History(1)[c[1]][c[2]] = 0 /\ AliveTimes(g, c) = {0}

\* The heap after a call returned r and the caller kept the Image returned.
After(r) == [r.w EXCEPT !.pins = @ \cup {r.id}]

\* What heap w holds of GameOfLife s: its time and the contents of its grids.
Outcome(w, s) ==
    [time |-> w.sims[s].time,
     board |-> Data(w, w.sims[s].board),
     history |-> Data(w, w.sims[s].history)]

\* C9: from every reachable state and for every time t, run_until(t) then
\* history_until(t), history_until(t) then run_until(t), run_until(t) twice
\* and history_until(t) twice leave a GameOfLife with the same board, time and
\* history, every run_until of them returns the same grid and every
\* history_until of them returns the same grid.
C9_EitherViewAdvances ==
    \A s \in DOMAIN sims :
        HasHistory(s) =>
            \A t \in Times :
                \E r \in {run_until(World, s, t)}, h \in {history_until(World, s, t)} :
                    \E rh \in {history_until(After(r), s, t)},
                       rr \in {run_until(After(r), s, t)},
                       hr \in {run_until(After(h), s, t)},
                       hh \in {history_until(After(h), s, t)} :
                        /\ Outcome(rh.w, s) = Outcome(hr.w, s)
                        /\ Outcome(rr.w, s) = Outcome(hr.w, s)
                        /\ Outcome(hh.w, s) = Outcome(hr.w, s)
                        /\ Outcome(r.w, s) = Outcome(hr.w, s)
                        /\ Outcome(h.w, s) = Outcome(hr.w, s)
                        /\ Data(r.w, r.id) = Data(hr.w, hr.id)
                        /\ Data(rr.w, rr.id) = Data(hr.w, hr.id)
                        /\ Data(h.w, h.id) = Data(rh.w, rh.id)
                        /\ Data(hh.w, hh.id) = Data(rh.w, rh.id)

\* C9 witness: a GameOfLife was advanced to a time t >= 2 through its board,
\* then asked for its history at the same t: the caller holds the board of
\* time t and the history of time t, and the two grids differ.
C9_Witness ==
    /\ HasHistory(1)
    /\ last.op = "history_until" /\ last.arg >= 2
    /\ sims[1].time = last.arg
    /\ Len(held) = 2 /\ held[1].element = "Image"
    /\ images[held[1].id] = images[sims[1].board]
    /\ images[held[2].id] = images[sims[1].history]
    /\ HeldData(1) = Gen(1, last.arg)
    /\ Returned # Board(1)
    /\ \E c \in Cells(Returned) : Returned[c[1]][c[2]] = last.arg

\* X rotated by 90 degrees counter-clockwise (np.rot90): Cols(X) rows and
\* Rows(X) columns.
rot90(X) == Grid(Cols(X), Rows(X), LAMBDA i, j : X[j][Cols(X) - i + 1])

\* X with its rows in reverse order (np.flipud).
flipud(X) == Grid(Rows(X), Cols(X), LAMBDA i, j : X[Rows(X) - i + 1][j])

\* X with its columns in reverse order (np.fliplr).
fliplr(X) == Grid(Rows(X), Cols(X), LAMBDA i, j : X[i][Cols(X) - j + 1])

\* X transposed.
transpose(X) == Grid(Cols(X), Rows(X), LAMBDA i, j : X[j][i])

\* C10: for every 0/1 grid X that a step takes to Y = single_step(X),
\* single_step of X rotated by 90 degrees is Y rotated by 90 degrees, and
\* single_step of X with its rows reversed, its columns reversed or transposed
\* is Y reflected the same way.
C10_Symmetries ==
    [][\A s \in DOMAIN sims :
          Stepped(s) =>
              \E X \in {Board(s)} : \E Y \in {Board(s)'} :
                  /\ \E R \in {rot90(X)} : single_step(R) = rot90(Y)
                  /\ \E R \in {flipud(X)} : single_step(R) = flipud(Y)
                  /\ \E R \in {fliplr(X)} : single_step(R) = fliplr(Y)
                  /\ \E R \in {transpose(X)} : single_step(R) = transpose(Y)]_vars

\* C10 witness: a grid of 3 x 4 cells that none of the four symmetries maps
\* to itself went through a step that changed it, and its image under
\* the step is mapped to itself by none of them either.
C10_Witness ==
    \E X \in {made[1].pattern} : \E Y \in {Board(1)} :
        /\ sims[1].time = 1 /\ last.op = "step"
        /\ shape(X) = <<3, 4>>
        /\ X # flipud(X) /\ X # fliplr(X) /\ X # rot90(rot90(X))
        /\ Y # X
        /\ Y # flipud(Y) /\ Y # fliplr(Y) /\ Y # rot90(rot90(Y))
        /\ Population(Y) > 0
        /\ \E R \in {rot90(X)} : single_step(R) = rot90(Y)

\* The live cells of X as <<row, column>>, in row-major order.
LiveCells(X) ==
    SelectSeq(MkSeq(Rows(X) * Cols(X), LAMBDA n :
                  <<((n - 1) \div Cols(X)) + 1, ((n - 1) % Cols(X)) + 1>>),
              LAMBDA c : X[c[1]][c[2]] # 0)

\* The k-th of n evenly spaced coordinates from -0.5 + 1/(2n) to 0.5 - 1/(2n).
Coordinate(k, n) == [num |-> 2 * k - 1 - n, den |-> 2 * n]

\* Two rationals are the same number.
SameNumber(p, q) == p.num * q.den = q.num * p.den

\* Two points are the same place.
SamePoint(p, q) == SameNumber(p[1], q[1]) /\ SameNumber(p[2], q[2])

\* The points pts are one point per live cell of X and none else, the point
\* of cell (r, c) being at the c-th of nx coordinates and at the negation of
\* the r-th of ny coordinates.
PointsVersion(pts, X, nx, ny) ==
    \E live \in {LiveCells(X)} :
        /\ Len(pts) = Len(live)
        /\ \A k \in 1..Len(live) :
              \E n \in 1..Len(pts) :
                  SamePoint(pts[n], <<Coordinate(live[k][2], nx),
                                      Neg(Coordinate(live[k][1], ny))>>)
        /\ \A n \in 1..Len(pts) :
              \E k \in 1..Len(live) :
                  SamePoint(pts[n], <<Coordinate(live[k][2], nx),
                                      Neg(Coordinate(live[k][1], ny))>>)

\* C11 as stated: whenever points_until(t) has returned, on any board, the
\* points are one per live cell of the board reached and none for a dead
\* cell, the point of the cell in row r, column c at the c-th x coordinate and
\* the negated r-th y coordinate, the coordinates being those of the list of
\* shape[0] values the method builds or, read per axis, one list of as many
\* values as the axis has cells.
C11_PointsVersion ==
    \A s \in DOMAIN sims :
        (last.op = "points_until" /\ last.sim = s) =>
            \E X \in {Board(s)} : \E pts \in {held[Len(held)].data} :
                \/ PointsVersion(pts, X, Rows(X), Rows(X))
                \/ PointsVersion(pts, X, Cols(X), Rows(X))

\* C11 on square boards only: there the points are one per live cell, each at
\* its column's x coordinate and its row's negated y coordinate.
C11_SquareBoards ==
    \A s \in DOMAIN sims :
        (last.op = "points_until" /\ last.sim = s /\ Rows(Board(s)) = Cols(Board(s))) =>
            \E X \in {Board(s)} : \E pts \in {held[Len(held)].data} :
                PointsVersion(pts, X, Rows(X), Rows(X))

(***************************************************************************)
(* SpecDead: one simulator of either class on a board of any shape of      *)
(* Shapes that is all dead, or holds one live cell, which dies in the      *)
(* first step; any interleaving of its methods up to MaxDeadTime.          *)
(***************************************************************************)
\* np.zeros((r, c)) with cell (1, 1) set to v.
Lonely(r, c, v) == Grid(r, c, LAMBDA i, j : IF i = 1 /\ j = 1 THEN v ELSE 0)

DeadTimes == 0..MaxDeadTime

InitDead ==
    \E kind \in Kinds, sh \in Shapes, v \in {0, 1} :
        InitWith(<<[kind |-> kind, pattern |-> Lonely(sh[1], sh[2], v), padding |-> 0]>>)

DeadStep == \E s \in DOMAIN sims : Step(s, MaxDeadTime)
DeadRunUntil == \E s \in DOMAIN sims, t \in DeadTimes : RunUntil(s, t)
DeadHistoryUntil == \E s \in DOMAIN sims, t \in DeadTimes : HistoryUntil(s, t)
DeadPointsUntil == \E s \in DOMAIN sims, t \in DeadTimes : PointsUntil(s, t)

NextDead == DeadStep \/ DeadRunUntil \/ DeadHistoryUntil \/ DeadPointsUntil

SpecDead == InitDead /\ [][NextDead]_vars

\* C12: single_step of an all-dead board is all dead, and a call on a
\* simulator whose board is all dead leaves the board all dead while the time
\* counter advances as on any board: by one in step, to t in a call that
\* runs until a later time t.
C12_DeadStaysDead ==
    [][\A s \in DOMAIN sims :
          Population(Board(s)) = 0 =>
              /\ Population(single_step(Board(s))) = 0
              /\ Population(Board(s)') = 0
              /\ shape(Board(s)') = shape(Board(s))
              /\ last'.op = "step" => sims'[s].time = sims[s].time + 1
              /\ (last'.op # "step" /\ last'.arg > sims[s].time) =>
                    sims'[s].time = last'.arg
              /\ sims'[s].time >= sims[s].time]_vars

\* C12 witness: a board of 3 x 4 cells that held a live cell has been all
\* dead since time 1 and the simulator was stepped on to time 2.
C12_Witness ==
    /\ shape(Board(1)) = <<3, 4>>
    /\ Population(Initial(1)) = 1
    /\ Population(Gen(1, 1)) = 0
    /\ sims[1].time = 2 /\ last.op = "step"
    /\ Population(Board(1)) = 0
    /\ Len(held) = 2 /\ held[1].element = "Image"
    /\ Population(HeldData(1)) = 0

\* What heap w holds of simulator s: its time and the contents of its grids.
SimState(w, s) ==
    [time |-> w.sims[s].time,
     board |-> Data(w, w.sims[s].board),
     history |-> IF "history" \in DOMAIN w.sims[s]
                 THEN Data(w, w.sims[s].history) ELSE <<>>]

\* The negative times the methods are called with.
NegTimes == {t \in Times : t < 0}

\* C13: from every reachable state, run_until(t) with t < 0 returns the
\* current board and changes nothing of the simulator, history_until(t)
\* returns the current history and points_until(t) the points of the current
\* board, changing nothing either, and a run_until(u) with u >= 0 made after
\* any of them returns the grid and leaves the simulator as the same call made
\* without them does.
C13_NegativeTime ==
    \A s \in DOMAIN sims : \A t \in NegTimes :
        \E r \in {run_until(World, s, t)} :
            /\ SimState(r.w, s) = SimState(World, s)
            /\ Data(r.w, r.id) = Board(s)
            /\ \A u \in Times \ NegTimes :
                  \E a \in {run_until(World, s, u)}, b \in {run_until(After(r), s, u)} :
                      /\ SimState(b.w, s) = SimState(a.w, s)
                      /\ Data(b.w, b.id) = Data(a.w, a.id)
            /\ HasHistory(s) =>
                  \E h \in {history_until(World, s, t)}, p \in {points_until(World, s, t)} :
                      /\ SimState(h.w, s) = SimState(World, s)
                      /\ Data(h.w, h.id) = History(s)
                      /\ SimState(p.w, s) = SimState(World, s)
                      /\ p.pts = points_until(World, s, sims[s].time).pts
                      /\ \A u \in Times \ NegTimes :
                            \E a \in {run_until(World, s, u)},
                               b \in {run_until(After(h), s, u)},
                               c \in {run_until(p.w, s, u)} :
                                /\ SimState(b.w, s) = SimState(a.w, s)
                                /\ Data(b.w, b.id) = Data(a.w, a.id)
                                /\ SimState(c.w, s) = SimState(a.w, s)
                                /\ Data(c.w, c.id) = Data(a.w, a.id)

\* C13 witness: a GameOfLife at time 2 has just returned from run_until(-1),
\* called after a points_until: it is still at time 2, the grid returned is
\* its board, generation 2, and its history still holds the times 1 and 2.
C13_Witness ==
    /\ HasHistory(1)
    /\ last.op = "run_until" /\ last.arg < 0
    /\ sims[1].time = 2
    /\ Returned = Board(1) /\ Board(1) = Gen(1, 2)
    /\ Board(1) # Initial(1)
    /\ Len(held) = 2 /\ held[1].element = "Points"
    /\ \E c \in Cells(History(1)) : History(1)[c[1]][c[2]] = 1
    /\ \E c \in Cells(History(1)) : History(1)[c[1]][c[2]] = 2

\* C14: in every reachable state the board of a simulator is its initial
\* padded grid with single_step applied as many times as its time counter says.
C14_BoardIsGeneration ==
    \A s \in DOMAIN sims :
        /\ sims[s].time >= 0
        /\ Board(s) = Gen(s, sims[s].time)

\* C14 witness: a simulator was stepped to time 1 and then run to time 3 by
\* run_until(3); its board is generation 3, which is none of the generations
\* before it.
C14_Witness ==
    /\ last.op = "run_until" /\ last.arg = 3
    /\ sims[1].time = 3
    /\ Len(held) = 2 /\ held[1].element = "Image"
    /\ HeldData(1) = Gen(1, 1)
    /\ Board(1) = Gen(1, 3)
    /\ \A t \in 0..2 : Gen(1, t) # Gen(1, 3)

\* The heap after n calls of step on simulator s, one after the other.
RECURSIVE Steps(_, _, _)
Steps(w, s, n) ==
    IF n = 0 THEN w ELSE Bind(Steps(w, s, n - 1), LAMBDA v : step(v, s).w)

\* max(0, n)
Positive(n) == IF n > 0 THEN n ELSE 0

\* C15: a call run_until(t) leaves the simulator as max(0, t - time) calls of
\* step leave it, the time at max(time before, t); with t <= time the board,
\* the time and the history are as before and the grid returned is the
\* current board, generation `time`.  No call makes the time counter smaller,
\* and each step raises it by 1.
C15_RunUntilSteps ==
    [][\A s \in DOMAIN sims :
          /\ sims'[s].time >= sims[s].time
          /\ last'.op = "step" => sims'[s].time = sims[s].time + 1
          /\ (last'.op = "run_until" /\ last'.sim = s) =>
                \E n \in {Positive(last'.arg - sims[s].time)} :
                    /\ sims'[s].time = sims[s].time + n
                    /\ sims'[s].time = Max({sims[s].time, last'.arg})
                    /\ \E w \in {Steps(World, s, n)} :
                          /\ w.sims[s].time = sims'[s].time
                          /\ Data(w, w.sims[s].board) = Board(s)'
                          /\ HasHistory(s) => Data(w, w.sims[s].history) = History(s)'
                          /\ Returned' = Data(w, w.sims[s].board)
                    /\ n = 0 =>
                          /\ Board(s)' = Board(s)
                          /\ HasHistory(s) => History(s)' = History(s)
                          /\ Returned' = Board(s)
                          /\ Returned' = Gen(s, sims[s].time)]_vars

\* C15 witness: run_until(1) has just returned on a simulator at time 3: the
\* time is still 3 and the grid returned is the board, generation 3, which is
\* not generation 1.
C15_Witness ==
    /\ last.op = "run_until" /\ last.arg = 1
    /\ sims[1].time = 3
    /\ Returned = Board(1)
    /\ Returned = Gen(1, 3)
    /\ Returned # Gen(1, 1)
    /\ images[held[Len(held)].id] = images[sims[1].board]

\* C16: in every reachable state of a GameOfLife every history value is
\* between 0 and the time counter, and when the counter is 1 or more a cell
\* is alive on the board exactly when its history value is the counter.
C16_HistoryBounds ==
    \A s \in DOMAIN sims :
        HasHistory(s) =>
            /\ shape(History(s)) = shape(Board(s))
            /\ \A c \in Cells(History(s)) :
                  /\ History(s)[c[1]][c[2]] \in 0..sims[s].time
                  /\ sims[s].time >= 1 =>
                        (Board(s)[c[1]][c[2]] = 1 <=> History(s)[c[1]][c[2]] = sims[s].time)

\* C16 witness: a GameOfLife at time 3 with a live cell, whose history is 3,
\* a dead cell that was alive last at time 1 or 2, and a dead cell whose
\* history is 0.
C16_Witness ==
    /\ HasHistory(1) /\ sims[1].time = 3
    /\ \E c \in Cells(Board(1)) :
          Board(1)[c[1]][c[2]] = 1 /\ History(1)[c[1]][c[2]] = 3
    /\ \E c \in Cells(Board(1)) :
          Board(1)[c[1]][c[2]] = 0 /\ History(1)[c[1]][c[2]] \in {1, 2}
    /\ \E c \in Cells(Board(1)) :
          Board(1)[c[1]][c[2]] = 0 /\ History(1)[c[1]][c[2]] = 0
    /\ last.op = "history_until"

\* What a call of step, run_until or history_until on simulator s can return
\* from heap w: the set of [w, id], over the methods and their time arguments.
Calls(w, s) ==
    {step(w, s)} \cup {run_until(w, s, t) : t \in Times} \cup
    (IF "history" \in DOMAIN w.sims[s]
     THEN {history_until(w, s, t) : t \in Times} ELSE {})

\* C17: the grid of an Image the caller got from step, run_until (its no-step
\* branch included) or history_until has the same contents after any later
\* call of step, run_until or history_until on the simulator, and after any
\* second call following it; the grid the first of the two calls returned is
\* not changed by the second either.
C17_StableSnapshots ==
    \A k \in 1..Len(held) :
        held[k].element = "Image" =>
            \A s \in DOMAIN sims :
                \A r1 \in Calls(World, s) :
                    /\ Data(r1.w, held[k].id) = HeldData(k)
                    /\ \A r2 \in Calls(After(r1), s) :
                          /\ Data(r2.w, held[k].id) = HeldData(k)
                          /\ Data(r2.w, r1.id) = Data(r1.w, r1.id)

\* C17 witness: the caller holds the grid history_until returned at time 2
\* and a step has since taken the GameOfLife to time 3: the grid still is the
\* history of time 2, cell by cell, while the history of the simulator has
\* moved on; the Image step returned shares the array of the board.
C17_Witness ==
    /\ HasHistory(1)
    /\ sims[1].time = 3 /\ last.op = "step"
    /\ Len(held) = 2 /\ held[1].element = "Image"
    /\ images[held[2].id] = images[sims[1].board]
    /\ images[held[1].id] # images[sims[1].history]
    /\ HeldData(1) # History(1)
    /\ \E c \in Cells(HeldData(1)) : HeldData(1)[c[1]][c[2]] = 2
    /\ \E g \in {Generations(Initial(1), 2)} :
          \A c \in Cells(HeldData(1)) :
              HeldData(1)[c[1]][c[2]] =
                  IF AliveTimes(g, c) = {} THEN 0 ELSE Max(AliveTimes(g, c))

====
